---------------------------- MODULE Spec2Model ----------------------------
(***************************************************************************)
(* OptiCut Pro (src/app.py): single-sheet nesting of bounding boxes.       *)
(*                                                                         *)
(* solve_nesting hands the bounding boxes of the demand to a rectpack      *)
(* packer built by newPacker(mode=Offline, rotation=True,                  *)
(* sort_algo=SORT_AREA), i.e. with the library defaults bin_algo=BBF and   *)
(* pack_algo=MaxRectsBssf, and turns the rectangles of the first bin into  *)
(* a report.  The packer is modelled operation by operation (SORT_AREA,    *)
(* the bin factory's surface test, MaxRectsBssf's fitness, position        *)
(* selection, split and pruning of the maximal free rectangles).           *)
(*                                                                         *)
(* Numbers.  Lengths are integers (st.number_input with integer bounds).   *)
(* Areas are kept exactly, in units of 1/AreaScale, so that                *)
(* 3.14159 * r**2 and 0.5 * b * h are integers; a percentage is kept as    *)
(* the exact fraction [num, den] that the float expression rounds.         *)
(* The UI's limits (sides 10..2000, quantity 1..100) are scaled down to    *)
(* 1..MaxDim and 1..MaxQty.                                                *)
(*                                                                         *)
(* Identifiers.  add_item keeps the first 8 hex digits of a uuid4, so two  *)
(* items can carry the same id.  Ids are only ever compared for equality;  *)
(* they are modelled as small naturals, each new id being one of the ids   *)
(* already in use (a collision) or the next unused one.                    *)
(***************************************************************************)
EXTENDS Integers, Sequences, FiniteSets

VARIABLES
    bin_w, bin_h, items,        \* arguments of the running solve_nesting call
    pc,                         \* position inside solve_nesting
    sorted_rect,                \* packer._sorted_rect still to be packed
    packer,                     \* the packer's bins: open_bins, max_rects, rectangles
    report,                     \* value returned by the call, or None
    err,                        \* exception that ended the call, or None
    prev_call,                  \* the previous completed call (board, report), or None
    rm_w, rm_h,                 \* sidebar number inputs
    job_list,                   \* st.session_state.job_list
    optimization_result,        \* st.session_state.optimization_result
    ever_stored                 \* some Execute has stored a result in this session

vars == <<bin_w, bin_h, items, pc, sorted_rect, packer, report, err, prev_call,
          rm_w, rm_h, job_list, optimization_result, ever_stored>>

engine_vars == <<bin_w, bin_h, items, pc, sorted_rect, packer, report, err, prev_call>>
session_vars == <<rm_w, rm_h, job_list, optimization_result, ever_stored>>

---------------------------------------------------------------------------
(* Bounds of the model *)

MaxDim == 2         \* largest side of a shape in the general specification
MaxItems == 2       \* longest demand list in the general specification
MaxBoard == 3       \* largest board side
MaxPackDim == 2     \* largest rectangle side in the packing specification
MaxPackItems == 3   \* longest demand list in the packing specification
MaxAgainDim == 2    \* largest rectangle side when a call is repeated
MaxAgainItems == 2  \* longest demand list when a call is repeated
MaxMonoDim == 3     \* largest rectangle side when the board is enlarged
MaxMonoItems == 3   \* longest demand list when the board is enlarged
MaxMonoBoard == 3   \* largest board side when the board is enlarged
MaxElapsed == 1     \* largest measured duration, in clock ticks
MaxQty == 2         \* largest quantity of one Add Shape
MaxJobs == 2        \* longest job_list of the session specification
MaxFormDim == 1     \* largest side entered in a form of the session specification
MaxRm == 2          \* largest board side entered in the session specification

None == <<>>             \* an absent value; a present one is <<v>>
NoError == "None"

AreaScale == 100000     \* areas are counted in 1/100000 square units
PiScaled == 314159      \* 3.14159 in that unit
HalfScaled == 50000     \* 0.5 in that unit

Min(a, b) == IF a <= b THEN a ELSE b
Max(a, b) == IF a >= b THEN a ELSE b

RECURSIVE SeqMax(_)
SeqMax(s) == IF s = <<>> THEN 0 ELSE Max(Head(s), SeqMax(Tail(s)))

RECURSIVE SeqSum(_)
SeqSum(s) == IF s = <<>> THEN 0 ELSE Head(s) + SeqSum(Tail(s))

RECURSIVE Flatten(_)
Flatten(ss) == IF ss = <<>> THEN <<>> ELSE Head(ss) \o Flatten(Tail(ss))

---------------------------------------------------------------------------
(* add_item: the shape catalogue and the job queue *)

color_map(shape) ==
    CASE shape = "Rectangle" -> "#3B82F6"
      [] shape = "Square" -> "#10B981"
      [] shape = "Circle" -> "#F59E0B"
      [] shape = "Triangle" -> "#8B5CF6"
      [] OTHER -> "#666"

bbox_w(shape, dims) ==
    CASE shape \in {"Rectangle", "Square"} -> dims.w
      [] shape = "Circle" -> dims.r * 2
      [] shape = "Triangle" -> dims.b

bbox_h(shape, dims) ==
    CASE shape \in {"Rectangle", "Square"} -> dims.h
      [] shape = "Circle" -> dims.r * 2
      [] shape = "Triangle" -> dims.h

shape_area(shape, dims) ==
    CASE shape \in {"Rectangle", "Square"} -> dims.w * dims.h * AreaScale
      [] shape = "Circle" -> PiScaled * (dims.r * dims.r)
      [] shape = "Triangle" -> HalfScaled * dims.b * dims.h

new_item(shape, dims, rot, uid) ==
    [id |-> uid, type |-> shape, dims |-> dims,
     w |-> bbox_w(shape, dims), h |-> bbox_h(shape, dims),
     area |-> shape_area(shape, dims),
     allow_rotation |-> rot, color |-> color_map(shape)]

(* The forms of the three tabs: what one Add Shape click can submit. *)
ShapeForms(maxdim) ==
    {[shape |-> "Rectangle", dims |-> [w |-> w, h |-> h], rot |-> rot] :
        w \in 1..maxdim, h \in 1..maxdim, rot \in BOOLEAN}
    \cup {[shape |-> "Square", dims |-> [w |-> s, h |-> s], rot |-> rot] :
        s \in 1..maxdim, rot \in BOOLEAN}
    \cup {[shape |-> "Circle", dims |-> [r |-> r], rot |-> FALSE] :
        r \in {r \in 1..maxdim : 2 * r <= maxdim}}
    \cup {[shape |-> "Triangle", dims |-> [b |-> b, h |-> h], rot |-> rot] :
        b \in 1..maxdim, h \in 1..maxdim, rot \in BOOLEAN}

(* uuid4()[:8] for a queue that already holds the ids `used`. *)
FreshIds(used) == 1..(SeqMax(used) + 1)

RECURSIVE IdsOf(_)
IdsOf(list) == IF list = <<>> THEN <<>> ELSE <<Head(list).id>> \o IdsOf(Tail(list))

(* All queues add_item can build from the forms, of length n. *)
RECURSIVE JobLists(_, _)
JobLists(forms, n) ==
    IF n = 0 THEN {<<>>}
    ELSE LET shorter == JobLists(forms, n - 1)
         IN  UNION {{Append(l, new_item(f.shape, f.dims, f.rot, u)) :
                        f \in forms, u \in FreshIds(IdsOf(l))} : l \in shorter}

add_item(list, shape, dims, uids, rot) ==
    list \o [k \in 1..Len(uids) |-> new_item(shape, dims, rot, uids[k])]

---------------------------------------------------------------------------
(* rectpack as configured by newPacker(mode=Offline, rotation=True,        *)
(* sort_algo=SORT_AREA): PackerBBF over MaxRectsBssf bins.                 *)

NoFit == -1     \* _rect_fitness returning None (a fitness is never negative)

Rectangle(x, y, width, height) == [x |-> x, y |-> y, width |-> width, height |-> height]

(* Rectangle.__init__ asserts height >= 0 and width >= 0. *)
rectangle_ok(width, height) == height >= 0 /\ width >= 0

left(r) == r.x
right(r) == r.x + r.width
bottom(r) == r.y
top(r) == r.y + r.height

(* Rectangle.intersects(rect, edges=False): touching edges do not count. *)
intersects(a, b) ==
    ~(bottom(a) >= top(b) \/ top(a) <= bottom(b)
      \/ left(a) >= right(b) \/ right(a) <= left(b))

(* Rectangle.contains *)
contains(a, b) ==
    /\ b.y >= a.y
    /\ b.x >= a.x
    /\ b.y + b.height <= a.y + a.height
    /\ b.x + b.width <= a.x + a.width

(* SORT_AREA: sorted(rectlist, reverse=True, key=w*h); the sort is stable, *)
(* so rectangles of equal area keep the order in which they were added.    *)
RECURSIVE insert_by_area(_, _)
insert_by_area(sorted, r) ==
    IF sorted = <<>> THEN <<r>>
    ELSE IF Head(sorted).w * Head(sorted).h >= r.w * r.h
         THEN <<Head(sorted)>> \o insert_by_area(Tail(sorted), r)
         ELSE <<r>> \o sorted

RECURSIVE sort_area(_)
sort_area(rects) ==
    IF rects = <<>> THEN <<>>
    ELSE insert_by_area(sort_area(SubSeq(rects, 1, Len(rects) - 1)), rects[Len(rects)])

(* packer.add_rect(item['w'], item['h'], rid=item['id']) for every item.   *)
(* src is the item's position in the demand: it is not seen by the code    *)
(* and only lets the properties name the item a rectangle came from.       *)
avail_rect(list) ==
    [k \in 1..Len(list) |-> [w |-> list[k].w, h |-> list[k].h, rid |-> list[k].id, src |-> k]]

(* PackingAlgorithm._fits_surface with rot *)
fits_surface(bw, bh, width, height, rot) ==
    LET swap == rot /\ (width > bw \/ height > bh)
        w2 == IF swap THEN height ELSE width
        h2 == IF swap THEN width ELSE height
    IN  ~(w2 > bw \/ h2 > bh)

(* Mutant: only the width is tested against the free region *)
rect_fitness_width_only(max_rect, width, height) ==
    IF width > max_rect.width
    THEN NoFit
    ELSE max_rect.width - width

(* Mutant: the size tests reversed, a region fits only what covers it *)
rect_fitness_reversed(max_rect, width, height) ==
    IF width < max_rect.width \/ height < max_rect.height
    THEN NoFit
    ELSE Min(width - max_rect.width, height - max_rect.height)

(* MaxRectsBssf._rect_fitness: the shorter leftover side *)
rect_fitness(max_rect, width, height) ==
    IF width > max_rect.width \/ height > max_rect.height
    THEN NoFit
    ELSE Min(max_rect.width - width, max_rect.height - height)

(* The generator ((fitness, w, h, m) for m in max_rects if fitness is not None) *)
RECURSIVE fit_list(_, _, _)
fit_list(max_rects, w, h) ==
    IF max_rects = <<>> THEN <<>>
    ELSE (IF rect_fitness(Head(max_rects), w, h) # NoFit
          THEN <<[fit |-> rect_fitness(Head(max_rects), w, h), w |-> w, h |-> h,
                  m |-> Head(max_rects)]>>
          ELSE <<>>)
         \o fit_list(Tail(max_rects), w, h)

(* min(fit, key=first_item): the first candidate of least fitness *)
first_min(fit) ==
    LET k == CHOOSE i \in 1..Len(fit) :
                /\ \A j \in 1..Len(fit) : fit[i].fit <= fit[j].fit
                /\ \A j \in 1..(i - 1) : fit[j].fit > fit[i].fit
    IN  fit[k]

(* Mutant: the rotated candidates chained before the natural ones *)
fit_chain_rotated_first(max_rects, w, h, rot) ==
    (IF rot THEN fit_list(max_rects, h, w) ELSE <<>>) \o fit_list(max_rects, w, h)

(* itertools.chain(fitn, fitr): natural candidates, then rotated ones *)
fit_chain(max_rects, w, h, rot) ==
    fit_list(max_rects, w, h) \o (IF rot THEN fit_list(max_rects, h, w) ELSE <<>>)

(* MaxRects._select_position: None, or <<the rectangle to place>> *)
select_position(max_rects, w, h, rot) ==
    LET fit == fit_chain(max_rects, w, h, rot)
    IN  IF fit = <<>> THEN None
        ELSE LET c == first_min(fit)
             IN  <<Rectangle(c.m.x, c.m.y, c.w, c.h)>>

(* Mutant: the split above r starts at the bottom of m instead of the top of r *)
generate_splits_low(m, r) ==
    (IF left(r) > left(m)
     THEN <<Rectangle(left(m), bottom(m), left(r) - left(m), m.height)>> ELSE <<>>)
    \o (IF right(r) < right(m)
        THEN <<Rectangle(right(r), bottom(m), right(m) - right(r), m.height)>> ELSE <<>>)
    \o (IF top(r) < top(m)
        THEN <<Rectangle(left(m), bottom(m), m.width, top(m) - top(r))>> ELSE <<>>)
    \o (IF bottom(r) > bottom(m)
        THEN <<Rectangle(left(m), bottom(m), m.width, bottom(r) - bottom(m))>> ELSE <<>>)

(* MaxRects._generate_splits: what is left of m around r *)
generate_splits(m, r) ==
    (IF left(r) > left(m)
     THEN <<Rectangle(left(m), bottom(m), left(r) - left(m), m.height)>> ELSE <<>>)
    \o (IF right(r) < right(m)
        THEN <<Rectangle(right(r), bottom(m), right(m) - right(r), m.height)>> ELSE <<>>)
    \o (IF top(r) < top(m)
        THEN <<Rectangle(left(m), top(r), m.width, top(m) - top(r))>> ELSE <<>>)
    \o (IF bottom(r) > bottom(m)
        THEN <<Rectangle(left(m), bottom(m), m.width, bottom(r) - bottom(m))>> ELSE <<>>)

(* MaxRects._split *)
split(max_rects, rect) ==
    Flatten([k \in 1..Len(max_rects) |->
                IF intersects(max_rects[k], rect)
                THEN generate_splits(max_rects[k], rect)
                ELSE <<max_rects[k]>>])

(* MaxRects._remove_duplicates: over itertools.combinations(max_rects, 2), *)
(* the contained one of each pair is collected in a set of values, and     *)
(* every maximal rectangle equal to a collected one is dropped.            *)
remove_duplicates(max_rects) ==
    LET n == Len(max_rects)
        contained ==
            {max_rects[j] : j \in {j \in 1..n :
                \E i \in 1..(j - 1) : contains(max_rects[i], max_rects[j])}}
            \cup
            {max_rects[i] : i \in {i \in 1..n :
                \E j \in (i + 1)..n : /\ ~contains(max_rects[i], max_rects[j])
                                      /\ contains(max_rects[j], max_rects[i])}}
    IN  SelectSeq(max_rects, LAMBDA m : m \notin contained)

(* MaxRects.add_rect on an open bin: the bin afterwards *)
bin_add_rect(bin, r, rot) ==
    LET sel == select_position(bin.max_rects, r.w, r.h, rot)
    IN  IF sel = None THEN bin
        ELSE [bin EXCEPT
                !.max_rects = remove_duplicates(split(bin.max_rects, sel[1])),
                !.rectangles = Append(bin.rectangles,
                    [x |-> sel[1].x, y |-> sel[1].y, width |-> sel[1].width,
                     height |-> sel[1].height, rid |-> r.rid, src |-> r.src])]

(* Mutant: one packer kept across calls instead of a new one per call *)
stale_packer == packer

(* newPacker(...) followed by add_bin: no bin is open yet, the one board   *)
(* waits in the bin factory.                                               *)
new_packer == [open_bins |-> 0, max_rects |-> <<>>, rectangles |-> <<>>]

(* rotation=True of the newPacker call: item['allow_rotation'] is not read *)
packer_rotation == TRUE

(* BinFactory.fits_inside builds its reference bin on first use, and       *)
(* PackingAlgorithm.__init__ builds Rectangle(0, 0, width, height).        *)
add_rect_raises(pk, bw, bh) == pk.open_bins = 0 /\ ~rectangle_ok(bw, bh)

(* PackerBBFMixin.add_rect: the best open bin, else a new bin from the     *)
(* factory if the rectangle fits its surface.  With one board there is at  *)
(* most one open bin and the factory is empty once it is open.             *)
packer_add_rect(pk, bw, bh, r) ==
    IF pk.open_bins > 0
    THEN bin_add_rect(pk, r, packer_rotation)
    ELSE IF ~fits_surface(bw, bh, r.w, r.h, packer_rotation)
         THEN pk
         ELSE bin_add_rect([open_bins |-> 1,
                            max_rects |-> <<Rectangle(0, 0, bw, bh)>>,
                            rectangles |-> <<>>], r, packer_rotation)

(* next((x for x in items if x['id'] == rid), None) *)
original(list, rid) ==
    list[CHOOSE k \in 1..Len(list) :
            /\ list[k].id = rid
            /\ \A j \in 1..(k - 1) : list[j].id # rid]

(* is_rotated: original['w'] != rect.width *)
is_rotated(list, rect) == original(list, rect.rid).w # rect.width

(* The rectangles of packer[0], if any bin was opened *)
first_bin(pk) == IF pk.open_bins > 0 THEN pk.rectangles ELSE <<>>

packed_results(list, pk) ==
    [k \in 1..Len(first_bin(pk)) |->
        LET rect == first_bin(pk)[k]
            orig == original(list, rect.rid)
        IN  [id |-> rect.rid, type |-> orig.type, x |-> rect.x, y |-> rect.y,
             w_box |-> rect.width, h_box |-> rect.height,
             rotation |-> IF is_rotated(list, rect) THEN 90 ELSE 0,
             color |-> orig.color, dims |-> orig.dims]]

placed_ids(pk) == {first_bin(pk)[k].rid : k \in 1..Len(first_bin(pk))}

used_area(list, pk) ==
    SeqSum([k \in 1..Len(first_bin(pk)) |-> original(list, first_bin(pk)[k].rid).area])

(* bin_w * bin_h == 0 makes the return expression raise ZeroDivisionError *)
return_raises(bw, bh) == bw * bh = 0

(* (used_area / (bin_w * bin_h)) * 100, as an exact fraction *)
efficiency(bw, bh, list, pk) ==
    [num |-> used_area(list, pk) * 100, den |-> AreaScale * (bw * bh)]

(* 100 - efficiency *)
waste(bw, bh, list, pk) ==
    [num |-> 100 * (AreaScale * (bw * bh)) - efficiency(bw, bh, list, pk).num,
     den |-> AreaScale * (bw * bh)]

(* The dictionary returned by solve_nesting *)
make_report(bw, bh, list, pk, elapsed) ==
    [placed |-> packed_results(list, pk),
     unplaced_count |-> Len(list) - Cardinality(placed_ids(pk)),
     efficiency |-> efficiency(bw, bh, list, pk),
     waste |-> waste(bw, bh, list, pk),
     time |-> elapsed]

(* packer.pack(): every sorted rectangle in turn.  [pk, raised] *)
RECURSIVE pack(_, _, _, _)
pack(pk, bw, bh, rects) ==
    IF rects = <<>> THEN [pk |-> pk, raised |-> FALSE]
    ELSE IF add_rect_raises(pk, bw, bh) THEN [pk |-> pk, raised |-> TRUE]
    ELSE pack(packer_add_rect(pk, bw, bh, Head(rects)), bw, bh, Tail(rects))

(* solve_nesting as one call: the exception raised, or the report *)
solve_nesting(bw, bh, list, elapsed) ==
    LET p == pack(new_packer, bw, bh, sort_area(avail_rect(list)))
    IN  IF p.raised THEN [err |-> "AssertionError", report |-> None]
        ELSE IF return_raises(bw, bh) THEN [err |-> "ZeroDivisionError", report |-> None]
        ELSE [err |-> NoError, report |-> <<make_report(bw, bh, list, p.pk, elapsed)>>]

---------------------------------------------------------------------------
(* One call of solve_nesting, step by step *)

(* number_input sets no minimum: a side can be negative or zero *)
BoardDims(maxboard) == (-1)..maxboard

(* lines 117-124: the packer is built and loaded, pack() sorts *)
Sort ==
    /\ pc = "call"
    /\ packer' = new_packer
    /\ sorted_rect' = sort_area(avail_rect(items))
    /\ pc' = "pack"
    /\ UNCHANGED <<bin_w, bin_h, items, report, err, prev_call>>
    /\ UNCHANGED session_vars

(* pack(): one rectangle of the sorted list is offered to the packer *)
PackRect ==
    /\ pc = "pack"
    /\ sorted_rect # <<>>
    /\ IF add_rect_raises(packer, bin_w, bin_h)
       THEN /\ pc' = "raised"
            /\ err' = "AssertionError"
            /\ UNCHANGED <<packer, sorted_rect>>
       ELSE /\ packer' = packer_add_rect(packer, bin_w, bin_h, Head(sorted_rect))
            /\ sorted_rect' = Tail(sorted_rect)
            /\ UNCHANGED <<pc, err>>
    /\ UNCHANGED <<bin_w, bin_h, items, report, prev_call>>
    /\ UNCHANGED session_vars

(* lines 125-164: the rectangles of the first bin become the report *)
Return ==
    /\ pc = "pack"
    /\ sorted_rect = <<>>
    /\ IF return_raises(bin_w, bin_h)
       THEN /\ pc' = "raised"
            /\ err' = "ZeroDivisionError"
            /\ UNCHANGED report
       ELSE /\ \E elapsed \in 0..MaxElapsed :
                 report' = <<make_report(bin_w, bin_h, items, packer, elapsed)>>
            /\ pc' = "done"
            /\ UNCHANGED err
    /\ UNCHANGED <<bin_w, bin_h, items, sorted_rect, packer, prev_call>>
    /\ UNCHANGED session_vars

(* The caller solves the same demand once more, on the same board *)
CallAgain ==
    /\ pc = "done"
    /\ prev_call = None
    /\ prev_call' = <<[bin_w |-> bin_w, bin_h |-> bin_h, report |-> report[1]]>>
    /\ report' = None
    /\ pc' = "call"
    /\ UNCHANGED <<bin_w, bin_h, items, sorted_rect, packer, err>>
    /\ UNCHANGED session_vars

(* The caller solves the same demand once more, on a board larger in both sides *)
CallLarger ==
    /\ pc = "done"
    /\ prev_call = None
    /\ \E w2 \in BoardDims(MaxMonoBoard), h2 \in BoardDims(MaxMonoBoard) :
          /\ w2 > bin_w
          /\ h2 > bin_h
          /\ bin_w' = w2
          /\ bin_h' = h2
    /\ prev_call' = <<[bin_w |-> bin_w, bin_h |-> bin_h, report |-> report[1]]>>
    /\ report' = None
    /\ pc' = "call"
    /\ UNCHANGED <<items, sorted_rect, packer, err>>
    /\ UNCHANGED session_vars

SessionIdle ==
    /\ rm_w = 2
    /\ rm_h = 1
    /\ job_list = <<>>
    /\ optimization_result = None
    /\ ever_stored = FALSE

EngineInit(lists, maxboard) ==
    /\ bin_w \in BoardDims(maxboard)
    /\ bin_h \in BoardDims(maxboard)
    /\ items \in lists
    /\ pc = "call"
    /\ sorted_rect = <<>>
    /\ packer = [open_bins |-> 0, max_rects |-> <<>>, rectangles |-> <<>>]
    /\ report = None
    /\ err = NoError
    /\ prev_call = None
    /\ SessionIdle

(* Any demand add_item can build, ids colliding or not *)
Demands(maxitems, maxdim) == UNION {JobLists(ShapeForms(maxdim), n) : n \in 0..maxitems}

(* Rectangles with rotation allowed (the form's defaults) and distinct ids *)
RECURSIVE RectLists(_, _)
RectLists(n, maxdim) ==
    IF n = 0 THEN {<<>>}
    ELSE UNION {{Append(l, new_item("Rectangle", [w |-> w, h |-> h], TRUE, n)) :
                    w \in 1..maxdim, h \in 1..maxdim} : l \in RectLists(n - 1, maxdim)}

RectDemands(maxitems, maxdim) == UNION {RectLists(n, maxdim) : n \in 0..maxitems}

(* One call, any demand *)
Init == EngineInit(Demands(MaxItems, MaxDim), MaxBoard)
Next == Sort \/ PackRect \/ Return
Spec == Init /\ [][Next]_vars

(* One call, rectangles only *)
PackInit == EngineInit(RectDemands(MaxPackItems, MaxPackDim), MaxBoard)
PackSpec == PackInit /\ [][Next]_vars

(* The same call made twice *)
AgainInit == EngineInit(RectDemands(MaxAgainItems, MaxAgainDim), MaxBoard)
AgainNext == Sort \/ PackRect \/ Return \/ CallAgain
AgainSpec == AgainInit /\ [][AgainNext]_vars

(* A call, then the same demand on a larger board *)
MonoInit == EngineInit(RectDemands(MaxMonoItems, MaxMonoDim), MaxMonoBoard)
MonoNext == Sort \/ PackRect \/ Return \/ CallLarger
MonoSpec == MonoInit /\ [][MonoNext]_vars

---------------------------------------------------------------------------
(* The Streamlit session: one action per script run *)

(* The ids of qty new items: each a collision or the next unused id *)
RECURSIVE NewIds(_, _)
NewIds(used, qty) ==
    IF qty = 0 THEN {<<>>}
    ELSE UNION {{<<u>> \o rest : rest \in NewIds(Append(used, u), qty - 1)} :
                    u \in FreshIds(used)}

(* lines 255-256: the board's sides are edited; no button is pressed *)
SetBoard ==
    /\ \E w \in BoardDims(MaxRm), h \in BoardDims(MaxRm) :
          /\ <<w, h>> # <<rm_w, rm_h>>
          /\ rm_w' = w
          /\ rm_h' = h
    /\ UNCHANGED <<job_list, optimization_result, ever_stored>>
    /\ UNCHANGED engine_vars

(* lines 290-292, 298-300, 309-311: Add Shape on one of the tabs *)
AddShape ==
    /\ \E f \in ShapeForms(MaxFormDim), qty \in 1..MaxQty :
          /\ Len(job_list) + qty <= MaxJobs
          /\ \E uids \in NewIds(IdsOf(job_list), qty) :
                job_list' = add_item(job_list, f.shape, f.dims, uids, f.rot)
    /\ UNCHANGED <<rm_w, rm_h, optimization_result, ever_stored>>
    /\ UNCHANGED engine_vars

(* Mutant: Reset All Data that forgets the stored result *)
Reset_keeps_result ==
    /\ job_list' = <<>>
    /\ UNCHANGED <<rm_w, rm_h, optimization_result, ever_stored>>
    /\ UNCHANGED engine_vars

(* lines 260-263: Reset All Data *)
Reset ==
    /\ job_list' = <<>>
    /\ optimization_result' = None
    /\ UNCHANGED <<rm_w, rm_h, ever_stored>>
    /\ UNCHANGED engine_vars

(* lines 314, 324-328: Execute Optimization, offered while the queue is    *)
(* not empty; an exception of solve_nesting ends the script run before     *)
(* the assignment.                                                         *)
Execute ==
    /\ job_list # <<>>
    /\ \E elapsed \in 0..MaxElapsed :
          LET res == solve_nesting(rm_w, rm_h, job_list, elapsed)
          IN  IF res.err = NoError
              THEN /\ optimization_result' = res.report
                   /\ ever_stored' = TRUE
              ELSE UNCHANGED <<optimization_result, ever_stored>>
    /\ UNCHANGED <<rm_w, rm_h, job_list>>
    /\ UNCHANGED engine_vars

(* lines 74-77 and the widgets' defaults (2440 x 1220, scaled to 2 x 1) *)
SessionInit ==
    /\ SessionIdle
    /\ bin_w = rm_w
    /\ bin_h = rm_h
    /\ items = <<>>
    /\ pc = "idle"
    /\ sorted_rect = <<>>
    /\ packer = [open_bins |-> 0, max_rects |-> <<>>, rectangles |-> <<>>]
    /\ report = None
    /\ err = NoError
    /\ prev_call = None

SessionNext == SetBoard \/ AddShape \/ Reset \/ Execute
SessionSpec == SessionInit /\ [][SessionNext]_vars

---------------------------------------------------------------------------
(* Properties *)

Returned == pc = "done"
Placed == report[1].placed
(* The demand item the k-th placed record was packed for *)
Source(k) == items[packer.rectangles[k].src]

OverlapArea(a, b) ==
    Max(0, Min(a.x + a.w_box, b.x + b.w_box) - Max(a.x, b.x))
    * Max(0, Min(a.y + a.h_box, b.y + b.h_box) - Max(a.y, b.y))

(* C1: in a returned report, any two distinct placed records have boxes    *)
(* [x, x+w_box) x [y, y+h_box) whose intersection has zero area.           *)
C1_NoOverlap ==
    Returned =>
        \A i \in 1..Len(Placed), j \in 1..Len(Placed) :
            i # j => OverlapArea(Placed[i], Placed[j]) = 0

(* Three boxes on one board, one of them turned, two of them side by side *)
C1_Witness ==
    /\ Returned
    /\ Len(Placed) >= 3
    /\ \E i \in 1..Len(Placed) : Placed[i].rotation = 90
    /\ \E i \in 1..Len(Placed), j \in 1..Len(Placed) :
          /\ Placed[i].x + Placed[i].w_box = Placed[j].x
          /\ Placed[i].y < Placed[j].y + Placed[j].h_box
          /\ Placed[j].y < Placed[i].y + Placed[i].h_box

ExceedsBothWays(it) ==
    /\ it.w > bin_w \/ it.h > bin_h
    /\ it.h > bin_w \/ it.w > bin_h

(* C2: every placed record lies inside the board: 0 <= x, 0 <= y,          *)
(* x + w_box <= bin_w, y + h_box <= bin_h; an item whose bounding box      *)
(* exceeds the board in both orientations is never placed.                 *)
C2_Containment ==
    Returned =>
        /\ \A k \in 1..Len(Placed) :
              /\ 0 <= Placed[k].x
              /\ 0 <= Placed[k].y
              /\ Placed[k].x + Placed[k].w_box <= bin_w
              /\ Placed[k].y + Placed[k].h_box <= bin_h
        /\ \A k \in 1..Len(Placed) : ~ExceedsBothWays(Source(k))

(* A box away from the origin that reaches the far side of the board,      *)
(* and an oversized item that was left out                                 *)
C2_Witness ==
    /\ Returned
    /\ \E k \in 1..Len(Placed) :
          \/ Placed[k].x > 0 /\ Placed[k].x + Placed[k].w_box = bin_w
          \/ Placed[k].y > 0 /\ Placed[k].y + Placed[k].h_box = bin_h
    /\ \E n \in 1..Len(items) : ExceedsBothWays(items[n])

(* C3: len(placed) + unplaced_count == len(items) in every returned report *)
C3_Conservation ==
    Returned => Len(Placed) + report[1].unplaced_count = Len(items)

(* C4: no placed record reports a rotation (rotation = 90, box dimensions  *)
(* swapped) when its source item has allow_rotation = false.               *)
C4_RotationLegality ==
    Returned =>
        \A k \in 1..Len(Placed) :
            ~(/\ ~Source(k).allow_rotation
              /\ Placed[k].rotation = 90
              /\ Placed[k].w_box = Source(k).h
              /\ Placed[k].h_box = Source(k).w)

(* C5: with a board of non-positive width or height the call fails with    *)
(* InvalidBoard before any placement attempt and returns no report.        *)
C5_InvalidBoard ==
    (bin_w <= 0 \/ bin_h <= 0) =>
        /\ report = None
        /\ pc # "done"
        /\ pc = "raised" => err = "InvalidBoard"
        /\ pc \in {"pack", "raised"} => Len(sorted_rect) = Len(items)

(* The exact area of the items that were placed, each counted once *)
PlacedArea ==
    SeqSum([k \in 1..Len(packer.rectangles) |-> Source(k).area])

(* C6: efficiency = 100 * (exact area of the placed items) / (bin_w*bin_h),*)
(* waste = 100 - efficiency, and efficiency is 0 for an empty demand.      *)
C6_Efficiency ==
    Returned =>
        /\ report[1].efficiency.den = AreaScale * (bin_w * bin_h)
        /\ report[1].efficiency.num = 100 * PlacedArea
        /\ report[1].waste.den = report[1].efficiency.den
        /\ report[1].waste.num = 100 * report[1].efficiency.den - report[1].efficiency.num
        /\ items = <<>> => report[1].efficiency.num = 0

SecondCall == Returned /\ prev_call # None

(* C7: the same demand on a board larger in both sides never has a larger  *)
(* unplaced_count.                                                         *)
C7_Monotone ==
    SecondCall => report[1].unplaced_count <= prev_call[1].report.unplaced_count

(* C7 amended: the same holds for a demand of at most one item *)
C7_MonotoneSingle ==
    (SecondCall /\ Len(items) <= 1) =>
        report[1].unplaced_count <= prev_call[1].report.unplaced_count

(* One item, left out on the smaller board and placed on the larger *)
C7_Witness ==
    /\ SecondCall
    /\ Len(items) = 1
    /\ prev_call[1].report.unplaced_count = 1
    /\ report[1].unplaced_count = 0

(* C8: two calls with the same board and demand return identical reports,  *)
(* every field included.                                                   *)
C8_Identical ==
    SecondCall => report[1] = prev_call[1].report

(* C8 amended: identical in every field but the measured time *)
C8_IdenticalButTime ==
    SecondCall =>
        /\ report[1].placed = prev_call[1].report.placed
        /\ report[1].unplaced_count = prev_call[1].report.unplaced_count
        /\ report[1].efficiency = prev_call[1].report.efficiency
        /\ report[1].waste = prev_call[1].report.waste

(* Two reports with a placement and an item left out that differ in their  *)
(* time only                                                               *)
C8_Witness ==
    /\ SecondCall
    /\ Len(Placed) >= 1
    /\ report[1].unplaced_count > 0
    /\ report[1].time # prev_call[1].report.time

(* The free regions an offered rectangle is tried against: those of the    *)
(* open bin, or the whole board still waiting in the factory.              *)
FreeRegions ==
    IF packer.open_bins > 0 THEN packer.max_rects ELSE <<Rectangle(0, 0, bin_w, bin_h)>>

Admits(w, h) ==
    \E k \in 1..Len(FreeRegions) : w <= FreeRegions[k].width /\ h <= FreeRegions[k].height

(* Least shorter-side leftover of a w x h box over the regions admitting it *)
BestLeftover(w, h) ==
    LET left_over == {Min(FreeRegions[k].width - w, FreeRegions[k].height - h) :
                        k \in {k \in 1..Len(FreeRegions) :
                                w <= FreeRegions[k].width /\ h <= FreeRegions[k].height}}
    IN  CHOOSE v \in left_over : \A u \in left_over : v <= u

(* This step places the rectangle at the head of the sorted list *)
PlacesHead ==
    /\ pc = "pack"
    /\ sorted_rect # <<>>
    /\ Len(packer'.rectangles) = Len(packer.rectangles) + 1

NewRect == packer'.rectangles[Len(packer'.rectangles)]

(* C9: a record is reported as rotated only if, when its item was          *)
(* attempted, no free region admitted the natural box (w, h) while some    *)
(* free region admitted the swapped box (h, w).                            *)
C9_NaturalFirst ==
    [][(PlacesHead /\ is_rotated(items, NewRect)) =>
            /\ ~Admits(Head(sorted_rect).w, Head(sorted_rect).h)
            /\ Admits(Head(sorted_rect).h, Head(sorted_rect).w)]_vars

(* C9 amended: an item is placed with its box swapped only if some free    *)
(* region admitted the swapped box and either none admitted the natural    *)
(* box or the swapped box had the strictly smaller best shorter-side       *)
(* leftover.                                                               *)
C9_BestSideFit ==
    [][(PlacesHead /\ NewRect.width # Head(sorted_rect).w) =>
            /\ Admits(Head(sorted_rect).h, Head(sorted_rect).w)
            /\ \/ ~Admits(Head(sorted_rect).w, Head(sorted_rect).h)
               \/ BestLeftover(Head(sorted_rect).h, Head(sorted_rect).w)
                    < BestLeftover(Head(sorted_rect).w, Head(sorted_rect).h)]_vars

(* The first rectangle placed, on the empty board, is turned although the  *)
(* board admits its natural box.                                           *)
C9_Witness ==
    /\ Returned
    /\ Len(Placed) >= 1
    /\ Placed[1].rotation = 90
    /\ Placed[1].w_box = Source(1).h
    /\ Source(1).w <= bin_w
    /\ Source(1).h <= bin_h

(* C10: whenever job_list is empty, the stored optimization_result is      *)
(* None; a result is stored only by a script run that finds job_list       *)
(* non-empty and leaves it as it is (Execute Optimization); and a run that *)
(* empties job_list (Reset All Data) leaves no result behind.              *)
C10_EmptyQueueNoResult ==
    /\ [](job_list = <<>> => optimization_result = None)
    /\ [][(optimization_result' # optimization_result /\ optimization_result' # None)
            => (job_list # <<>> /\ job_list' = job_list /\ ever_stored')]_vars
    /\ [][(job_list # <<>> /\ job_list' = <<>>) => optimization_result' = None]_vars

(* A result was stored earlier in the session and the queue is empty again *)
C10_Witness ==
    /\ ever_stored
    /\ job_list = <<>>
    /\ optimization_result = None

=============================================================================
